---- MODULE Spec2Model ----
(***************************************************************************)
(* Digit-grid coordinate decoding (26-Jan/tz.py, Jan-26/tz.py,             *)
(* 26-Jan/find_cities.py).                                                 *)
(*                                                                         *)
(* A character is a one-character string; a Python str is a sequence of    *)
(* characters.  A decoded magnitude is held exactly, as an integer number  *)
(* of units of 1/(3600 * 10^MaxFrac) degree (Unit units = one arc-second), *)
(* so that degrees + minutes/60 + seconds/3600 is integer arithmetic.      *)
(***************************************************************************)
EXTENDS Integers, Sequences, FiniteSets, TLC

\* Longest digit run drawn freely over DigitAlphabet as a decoder input.
MaxLen == 7

\* Fraction digits of a second that a magnitude resolves: every run handed
\* to a decoder has at most 6 + MaxFrac digits.
MaxFrac == 2

\* Digits the bounded runs are built from: they reach both sides of every
\* range check of the decoder (minutes/seconds < 60, degrees < 180).
DigitAlphabet == {"0", "1", "6", "9"}

DigitChars == {"0", "1", "2", "3", "4", "5", "6", "7", "8", "9"}

RECURSIVE Pow10(_)
Pow10(k) == IF k <= 0 THEN 1 ELSE 10 * Pow10(k - 1)

\* Units per arc-second.
Unit == Pow10(MaxFrac)

----------------------------------------------------------------------------
(* Python builtins used by the decoder *)

\* int(c) for a one-character digit string
DigitVal(c) ==
    CASE c = "0" -> 0 [] c = "1" -> 1 [] c = "2" -> 2 [] c = "3" -> 3
      [] c = "4" -> 4 [] c = "5" -> 5 [] c = "6" -> 6 [] c = "7" -> 7
      [] c = "8" -> 8 [] c = "9" -> 9

\* int(s) for a non-empty string of decimal digits
RECURSIVE int(_)
int(s) ==
    IF Len(s) = 0 THEN 0
    ELSE 10 * int(SubSeq(s, 1, Len(s) - 1)) + DigitVal(s[Len(s)])

\* s[a:b] with 0 <= a <= b (the end is clamped to len(s))
Slice(s, a, b) == SubSeq(s, a + 1, IF b < Len(s) THEN b ELSE Len(s))

\* s[a:]
SliceFrom(s, a) == SubSeq(s, a + 1, Len(s))

\* the return value None
None ==
    [ok |-> FALSE, value |-> 0, degrees |-> 0, minutes |-> 0, seconds |-> 0,
     fraction |-> 0, fdigits |-> 0, branch |-> "none"]

\* int(s) raised ValueError and the call was left through the exception
ValueError ==
    [ok |-> FALSE, value |-> 0, degrees |-> 0, minutes |-> 0, seconds |-> 0,
     fraction |-> 0, fdigits |-> 0, branch |-> "ValueError"]

\* int(s) returns for s: every character is a decimal digit.  The other
\* characters a run of the model can hold are letters, on which int raises.
IsDigits(s) == \A i \in 1..Len(s) : s[i] \in DigitChars

\* degrees + minutes / 60.0 + (seconds + fraction / 10 ** fdigits) / 3600.0,
\* with the fields it was computed from and the return statement that
\* produced it.
Angle(degrees, minutes, seconds, fraction, fdigits, branch) ==
    [ok |-> TRUE,
     value |-> ((degrees * 60 + minutes) * 60 + seconds) * Unit
               + fraction * Pow10(MaxFrac - fdigits),
     degrees |-> degrees, minutes |-> minutes, seconds |-> seconds,
     fraction |-> fraction, fdigits |-> fdigits, branch |-> branch]

----------------------------------------------------------------------------
(* parse_coordinate_from_digits of 26-Jan/tz.py *)

\* Mutant of tz_rows_fields: the digits after the seconds field are dropped
tz_rows_fields_nofraction(digit_string) ==
    LET num_len == Len(digit_string) IN
    IF num_len >= 6 THEN
        [degrees |-> int(Slice(digit_string, 0, 2)),
         minutes |-> int(Slice(digit_string, 2, 4)),
         seconds |-> int(Slice(digit_string, 4, 6)),
         fraction |-> 0, fdigits |-> 0, branch |-> "rows>=6"]
    ELSE IF num_len = 5 THEN
        [degrees |-> int(Slice(digit_string, 0, 2)),
         minutes |-> int(Slice(digit_string, 2, 4)),
         seconds |-> int(Slice(digit_string, 4, 5)),
         fraction |-> 0, fdigits |-> 0, branch |-> "rows5"]
    ELSE IF num_len = 4 THEN
        [degrees |-> int(Slice(digit_string, 0, 2)),
         minutes |-> int(Slice(digit_string, 2, 4)),
         seconds |-> 0,
         fraction |-> 0, fdigits |-> 0, branch |-> "rows4"]
    ELSE IF num_len = 3 THEN
        [degrees |-> int(Slice(digit_string, 0, 2)),
         minutes |-> int(Slice(digit_string, 2, 3)),
         seconds |-> 0,
         fraction |-> 0, fdigits |-> 0, branch |-> "rows3"]
    ELSE
        [degrees |-> int(digit_string), minutes |-> 0, seconds |-> 0,
         fraction |-> 0, fdigits |-> 0, branch |-> "rows<=2"]

\* Mutant of tz_rows_fields: the digits after the seconds field are always
\* read as tenths of a second, whatever their number
tz_rows_fields_tenths(digit_string) ==
    LET num_len == Len(digit_string) IN
    IF num_len >= 6 THEN
        [degrees |-> int(Slice(digit_string, 0, 2)),
         minutes |-> int(Slice(digit_string, 2, 4)),
         seconds |-> int(Slice(digit_string, 4, 6)),
         fraction |-> IF num_len > 6 THEN int(SliceFrom(digit_string, 6)) ELSE 0,
         fdigits |-> IF num_len > 6 THEN 1 ELSE 0,
         branch |-> "rows>=6"]
    ELSE IF num_len = 5 THEN
        [degrees |-> int(Slice(digit_string, 0, 2)),
         minutes |-> int(Slice(digit_string, 2, 4)),
         seconds |-> int(Slice(digit_string, 4, 5)),
         fraction |-> 0, fdigits |-> 0, branch |-> "rows5"]
    ELSE IF num_len = 4 THEN
        [degrees |-> int(Slice(digit_string, 0, 2)),
         minutes |-> int(Slice(digit_string, 2, 4)),
         seconds |-> 0,
         fraction |-> 0, fdigits |-> 0, branch |-> "rows4"]
    ELSE IF num_len = 3 THEN
        [degrees |-> int(Slice(digit_string, 0, 2)),
         minutes |-> int(Slice(digit_string, 2, 3)),
         seconds |-> 0,
         fraction |-> 0, fdigits |-> 0, branch |-> "rows3"]
    ELSE
        [degrees |-> int(digit_string), minutes |-> 0, seconds |-> 0,
         fraction |-> 0, fdigits |-> 0, branch |-> "rows<=2"]

\* Rows (max_digits_before_decimal == 2): the split fixed by the length.
tz_rows_fields(digit_string) ==
    LET num_len == Len(digit_string) IN
    IF num_len >= 6 THEN
        [degrees |-> int(Slice(digit_string, 0, 2)),
         minutes |-> int(Slice(digit_string, 2, 4)),
         seconds |-> int(Slice(digit_string, 4, 6)),
         fraction |-> IF num_len > 6 THEN int(SliceFrom(digit_string, 6)) ELSE 0,
         fdigits |-> IF num_len > 6 THEN num_len - 6 ELSE 0,
         branch |-> "rows>=6"]
    ELSE IF num_len = 5 THEN
        [degrees |-> int(Slice(digit_string, 0, 2)),
         minutes |-> int(Slice(digit_string, 2, 4)),
         seconds |-> int(Slice(digit_string, 4, 5)),
         fraction |-> 0, fdigits |-> 0, branch |-> "rows5"]
    ELSE IF num_len = 4 THEN
        [degrees |-> int(Slice(digit_string, 0, 2)),
         minutes |-> int(Slice(digit_string, 2, 4)),
         seconds |-> 0,
         fraction |-> 0, fdigits |-> 0, branch |-> "rows4"]
    ELSE IF num_len = 3 THEN
        [degrees |-> int(Slice(digit_string, 0, 2)),
         minutes |-> int(Slice(digit_string, 2, 3)),
         seconds |-> 0,
         fraction |-> 0, fdigits |-> 0, branch |-> "rows3"]
    ELSE
        [degrees |-> int(digit_string), minutes |-> 0, seconds |-> 0,
         fraction |-> 0, fdigits |-> 0, branch |-> "rows<=2"]

\* Mutant of tz_rows_invalid: 60 minutes or 60 seconds pass the check
tz_rows_invalid_above60(minutes, seconds, fraction, fdigits) ==
    minutes > 60 \/ seconds * Pow10(fdigits) + fraction > 60 * Pow10(fdigits)

\* if minutes >= 60 or seconds >= 60 (seconds already holds the fraction)
tz_rows_invalid(minutes, seconds, fraction, fdigits) ==
    minutes >= 60 \/ seconds * Pow10(fdigits) + fraction >= 60 * Pow10(fdigits)

\* Mutant of tz_rows: a magnitude above max_value is brought back under it by
\* subtracting max_value
tz_rows_wrapped(digit_string) ==
    LET f == tz_rows_fields(digit_string)
        a == Angle(f.degrees, f.minutes, f.seconds, f.fraction, f.fdigits, f.branch)
    IN  IF tz_rows_invalid(f.minutes, f.seconds, f.fraction, f.fdigits) THEN None
        ELSE IF a.value > 90 * 3600 * Unit
        THEN [a EXCEPT !.value = @ - 90 * 3600 * Unit]
        ELSE a

tz_rows(digit_string) ==
    LET f == tz_rows_fields(digit_string) IN
    IF tz_rows_invalid(f.minutes, f.seconds, f.fraction, f.fdigits) THEN None
    ELSE Angle(f.degrees, f.minutes, f.seconds, f.fraction, f.fdigits, f.branch)

\* Mutant of tz_try_322: 180 degrees pass the check
tz_try_322_degrees_180(digit_string) ==
    LET num_len == Len(digit_string)
        degrees == int(Slice(digit_string, 0, 3))
        minutes == int(Slice(digit_string, 3, 5))
        seconds == int(Slice(digit_string, 5, 7))
    IN  IF num_len >= 7 /\ degrees <= 180 /\ minutes < 60 /\ seconds < 60
        THEN Angle(degrees, minutes, seconds,
                   IF num_len > 7 THEN int(SliceFrom(digit_string, 7)) ELSE 0,
                   IF num_len > 7 THEN num_len - 7 ELSE 0, "3-2-2")
        ELSE None

\* Columns: the 3-2-2 split (DDDMMSS)
tz_try_322(digit_string) ==
    LET num_len == Len(digit_string)
        degrees == int(Slice(digit_string, 0, 3))
        minutes == int(Slice(digit_string, 3, 5))
        seconds == int(Slice(digit_string, 5, 7))
    IN  IF num_len >= 7 /\ degrees < 180 /\ minutes < 60 /\ seconds < 60
        THEN Angle(degrees, minutes, seconds,
                   IF num_len > 7 THEN int(SliceFrom(digit_string, 7)) ELSE 0,
                   IF num_len > 7 THEN num_len - 7 ELSE 0, "3-2-2")
        ELSE None

\* Columns: the 2-2-2 split (DDMMSS)
tz_try_222(digit_string) ==
    LET num_len == Len(digit_string)
        degrees == int(Slice(digit_string, 0, 2))
        minutes == int(Slice(digit_string, 2, 4))
        seconds == int(Slice(digit_string, 4, 6))
    IN  IF num_len >= 6 /\ degrees < 180 /\ minutes < 60 /\ seconds < 60
        THEN Angle(degrees, minutes, seconds,
                   IF num_len > 6 THEN int(SliceFrom(digit_string, 6)) ELSE 0,
                   IF num_len > 6 THEN num_len - 6 ELSE 0, "2-2-2")
        ELSE None

\* Mutant of tz_try_223: the 3-digit seconds field must be below 60
tz_try_223_seconds_checked(digit_string) ==
    LET num_len == Len(digit_string)
        degrees == int(Slice(digit_string, 0, 2))
        minutes == int(Slice(digit_string, 2, 4))
        seconds == int(Slice(digit_string, 4, 7))
    IN  IF num_len >= 7 /\ degrees < 180 /\ minutes < 60 /\ seconds < 60
        THEN Angle(degrees, minutes, seconds,
                   IF num_len > 7 THEN int(SliceFrom(digit_string, 7)) ELSE 0,
                   IF num_len > 7 THEN num_len - 7 ELSE 0, "2-2-3")
        ELSE None

\* Columns: the 2-2-3 split (DDMMSSS); seconds is not range-checked
tz_try_223(digit_string) ==
    LET num_len == Len(digit_string)
        degrees == int(Slice(digit_string, 0, 2))
        minutes == int(Slice(digit_string, 2, 4))
        seconds == int(Slice(digit_string, 4, 7))
    IN  IF num_len >= 7 /\ degrees < 180 /\ minutes < 60
        THEN Angle(degrees, minutes, seconds,
                   IF num_len > 7 THEN int(SliceFrom(digit_string, 7)) ELSE 0,
                   IF num_len > 7 THEN num_len - 7 ELSE 0, "2-2-3")
        ELSE None

\* Columns: the 2-3-2 split (DDMMMSS)
tz_try_232(digit_string) ==
    LET num_len == Len(digit_string)
        degrees == int(Slice(digit_string, 0, 2))
        minutes == int(Slice(digit_string, 2, 5))
        seconds == int(Slice(digit_string, 5, 7))
    IN  IF num_len >= 7 /\ degrees < 180 /\ minutes < 60 /\ seconds < 60
        THEN Angle(degrees, minutes, seconds,
                   IF num_len > 7 THEN int(SliceFrom(digit_string, 7)) ELSE 0,
                   IF num_len > 7 THEN num_len - 7 ELSE 0, "2-3-2")
        ELSE None

\* Mutant of tz_fallback_len4: the fourth digit of the 3-1 split is kept as
\* minutes
tz_fallback_len4_minutes_kept(digit_string) ==
    LET d2 == int(Slice(digit_string, 0, 2))
        d3 == int(Slice(digit_string, 0, 3))
    IN  IF d2 < 180 /\ int(Slice(digit_string, 2, 4)) < 60
        THEN Angle(d2, int(Slice(digit_string, 2, 4)), 0, 0, 0, "2-2")
        ELSE IF d3 < 180
        THEN Angle(d3, int(Slice(digit_string, 3, 4)), 0, 0, 0, "3-1")
        ELSE None

\* Columns, elif num_len == 4: the 2-2 split, then the 3-1 split whose
\* fourth digit is not read
tz_fallback_len4(digit_string) ==
    LET d2 == int(Slice(digit_string, 0, 2))
        d3 == int(Slice(digit_string, 0, 3))
    IN  IF d2 < 180 /\ int(Slice(digit_string, 2, 4)) < 60
        THEN Angle(d2, int(Slice(digit_string, 2, 4)), 0, 0, 0, "2-2")
        ELSE IF d3 < 180
        THEN Angle(d3, 0, 0, 0, 0, "3-1")
        ELSE None

\* Mutant of tz_fallback_len3: three digits are returned whatever their value
tz_fallback_len3_unchecked(digit_string) ==
    LET num_len == Len(digit_string)
        d3 == int(Slice(digit_string, 0, 3))
    IN  IF num_len > 3 /\ int(SliceFrom(digit_string, 3)) < 60
        THEN Angle(d3, int(SliceFrom(digit_string, 3)), 0, 0, 0, "3-rest")
        ELSE Angle(d3, 0, 0, 0, 0, "3")

\* Columns, elif num_len >= 3: reached by runs of 3 digits and by runs of 7
\* or more digits
tz_fallback_len3(digit_string) ==
    LET num_len == Len(digit_string)
        d3 == int(Slice(digit_string, 0, 3))
    IN  IF d3 < 180 THEN
            IF num_len > 3 /\ int(SliceFrom(digit_string, 3)) < 60
            THEN Angle(d3, int(SliceFrom(digit_string, 3)), 0, 0, 0, "3-rest")
            ELSE Angle(d3, 0, 0, 0, 0, "3")
        ELSE None

\* Columns: the splits tried when best_result is still None
tz_fallback(digit_string) ==
    LET num_len == Len(digit_string)
        d2 == int(Slice(digit_string, 0, 2))
        d3 == int(Slice(digit_string, 0, 3))
    IN
    IF num_len = 6 THEN
        IF d2 < 180 /\ int(Slice(digit_string, 2, 4)) < 60
                    /\ int(Slice(digit_string, 4, 6)) < 60
        THEN Angle(d2, int(Slice(digit_string, 2, 4)),
                   int(Slice(digit_string, 4, 6)), 0, 0, "2-2-2 again")
        ELSE IF d3 < 180 /\ int(Slice(digit_string, 3, 5)) < 60
        THEN Angle(d3, int(Slice(digit_string, 3, 5)),
                   int(Slice(digit_string, 5, 6)), 0, 0, "3-2-1")
        ELSE None
    ELSE IF num_len = 5 THEN
        IF d2 < 180 /\ int(Slice(digit_string, 2, 4)) < 60
        THEN Angle(d2, int(Slice(digit_string, 2, 4)),
                   int(Slice(digit_string, 4, 5)), 0, 0, "2-2-1")
        ELSE IF d3 < 180 /\ int(Slice(digit_string, 3, 5)) < 60
        THEN Angle(d3, int(Slice(digit_string, 3, 5)), 0, 0, 0, "3-2")
        ELSE IF d2 < 180 /\ int(Slice(digit_string, 2, 5)) < 60
        THEN Angle(d2, int(Slice(digit_string, 2, 5)), 0, 0, 0, "2-3")
        ELSE None
    ELSE IF num_len = 4 THEN tz_fallback_len4(digit_string)
    ELSE IF num_len >= 3 THEN tz_fallback_len3(digit_string)
    ELSE IF num_len = 2 THEN
        Angle(int(digit_string), 0, 0, 0, 0, "2")
    ELSE None

\* Mutant of tz_columns: the 2-2-2 split is tried before the 3-2-2 split
tz_columns_222_first(digit_string) ==
    LET r1 == tz_try_222(digit_string)
        r2 == IF r1.ok THEN r1 ELSE tz_try_322(digit_string)
        r3 == IF r2.ok THEN r2 ELSE tz_try_223(digit_string)
        r4 == IF r3.ok THEN r3 ELSE tz_try_232(digit_string)
    IN  IF r4.ok THEN r4 ELSE tz_fallback(digit_string)

\* Mutant of tz_columns: the 2-3-2 split is tried before the 2-2-3 split
tz_columns_232_before_223(digit_string) ==
    LET r1 == tz_try_322(digit_string)
        r2 == IF r1.ok THEN r1 ELSE tz_try_222(digit_string)
        r3 == IF r2.ok THEN r2 ELSE tz_try_232(digit_string)
        r4 == IF r3.ok THEN r3 ELSE tz_try_223(digit_string)
    IN  IF r4.ok THEN r4 ELSE tz_fallback(digit_string)

\* Columns (max_digits_before_decimal == 3): the first candidate that
\* sets best_result, else the fallback splits.
tz_columns(digit_string) ==
    LET r1 == tz_try_322(digit_string)
        r2 == IF r1.ok THEN r1 ELSE tz_try_222(digit_string)
        r3 == IF r2.ok THEN r2 ELSE tz_try_223(digit_string)
        r4 == IF r3.ok THEN r3 ELSE tz_try_232(digit_string)
    IN  IF r4.ok THEN r4 ELSE tz_fallback(digit_string)

\* Rows: every length reads all of the run through int() before the
\* range check, so a letter anywhere raises
tz_rows_raises(digit_string) == ~IsDigits(digit_string)

\* Columns: the int() calls that are reached.  A run of 2 to 6 digits is
\* read whole by the first split tried for its length; a run of 7 or more
\* has its first 7 characters read by the 3-2-2 split, and the rest read as
\* the fraction of an accepted candidate or as the minutes of the
\* elif num_len >= 3 branch; a run of 1 character is never read.
tz_columns_raises(digit_string) ==
    LET num_len == Len(digit_string)
        head7 == Slice(digit_string, 0, 7)
    IN  IF num_len < 2 THEN FALSE
        ELSE IF num_len < 7 THEN ~IsDigits(digit_string)
        ELSE \/ ~IsDigits(head7)
             \/ /\ ~IsDigits(SliceFrom(digit_string, 7))
                /\ \/ tz_try_322(head7).ok
                   \/ tz_try_222(head7).ok
                   \/ tz_try_223(head7).ok
                   \/ tz_try_232(head7).ok
                   \/ int(Slice(digit_string, 0, 3)) < 180

parse_coordinate_from_digits(digit_string, max_value, max_digits_before_decimal) ==
    IF Len(digit_string) = 0 THEN None
    ELSE IF max_digits_before_decimal = 2 THEN
        IF tz_rows_raises(digit_string) THEN ValueError
        ELSE tz_rows(digit_string)
    ELSE IF max_digits_before_decimal = 3 THEN
        IF tz_columns_raises(digit_string) THEN ValueError
        ELSE tz_columns(digit_string)
    ELSE None

----------------------------------------------------------------------------
(* parse_coordinate_from_digits of Jan-26/tz.py *)

\* Rows (max_digits_before_decimal == 2): the split fixed by the length.
old_rows_fields(digit_string) ==
    LET num_len == Len(digit_string) IN
    IF num_len >= 6 THEN
        [degrees |-> int(Slice(digit_string, 0, 2)),
         minutes |-> int(Slice(digit_string, 2, 4)),
         seconds |-> int(Slice(digit_string, 4, 6)),
         fraction |-> IF num_len > 6 THEN int(SliceFrom(digit_string, 6)) ELSE 0,
         fdigits |-> IF num_len > 6 THEN num_len - 6 ELSE 0,
         branch |-> "rows>=6"]
    ELSE IF num_len = 5 THEN
        [degrees |-> int(Slice(digit_string, 0, 2)),
         minutes |-> int(Slice(digit_string, 2, 4)),
         seconds |-> int(Slice(digit_string, 4, 5)),
         fraction |-> 0, fdigits |-> 0, branch |-> "rows5"]
    ELSE IF num_len = 4 THEN
        [degrees |-> int(Slice(digit_string, 0, 2)),
         minutes |-> int(Slice(digit_string, 2, 4)),
         seconds |-> 0,
         fraction |-> 0, fdigits |-> 0, branch |-> "rows4"]
    ELSE IF num_len = 3 THEN
        [degrees |-> int(Slice(digit_string, 0, 2)),
         minutes |-> int(Slice(digit_string, 2, 3)),
         seconds |-> 0,
         fraction |-> 0, fdigits |-> 0, branch |-> "rows3"]
    ELSE
        [degrees |-> int(digit_string), minutes |-> 0, seconds |-> 0,
         fraction |-> 0, fdigits |-> 0, branch |-> "rows<=2"]

\* if minutes >= 60 or seconds >= 60 (seconds already holds the fraction)
old_rows_invalid(minutes, seconds, fraction, fdigits) ==
    minutes >= 60 \/ seconds * Pow10(fdigits) + fraction >= 60 * Pow10(fdigits)

old_rows(digit_string) ==
    LET f == old_rows_fields(digit_string) IN
    IF old_rows_invalid(f.minutes, f.seconds, f.fraction, f.fdigits) THEN None
    ELSE Angle(f.degrees, f.minutes, f.seconds, f.fraction, f.fdigits, f.branch)

\* Columns: the 3-2-2 split (DDDMMSS)
old_try_322(digit_string) ==
    LET num_len == Len(digit_string)
        degrees == int(Slice(digit_string, 0, 3))
        minutes == int(Slice(digit_string, 3, 5))
        seconds == int(Slice(digit_string, 5, 7))
    IN  IF num_len >= 7 /\ degrees < 180 /\ minutes < 60 /\ seconds < 60
        THEN Angle(degrees, minutes, seconds,
                   IF num_len > 7 THEN int(SliceFrom(digit_string, 7)) ELSE 0,
                   IF num_len > 7 THEN num_len - 7 ELSE 0, "3-2-2")
        ELSE None

\* Columns: the 2-2-2 split (DDMMSS)
old_try_222(digit_string) ==
    LET num_len == Len(digit_string)
        degrees == int(Slice(digit_string, 0, 2))
        minutes == int(Slice(digit_string, 2, 4))
        seconds == int(Slice(digit_string, 4, 6))
    IN  IF num_len >= 6 /\ degrees < 180 /\ minutes < 60 /\ seconds < 60
        THEN Angle(degrees, minutes, seconds,
                   IF num_len > 6 THEN int(SliceFrom(digit_string, 6)) ELSE 0,
                   IF num_len > 6 THEN num_len - 6 ELSE 0, "2-2-2")
        ELSE None

\* Columns: the 2-2-3 split (DDMMSSS); seconds is not range-checked
old_try_223(digit_string) ==
    LET num_len == Len(digit_string)
        degrees == int(Slice(digit_string, 0, 2))
        minutes == int(Slice(digit_string, 2, 4))
        seconds == int(Slice(digit_string, 4, 7))
    IN  IF num_len >= 7 /\ degrees < 180 /\ minutes < 60
        THEN Angle(degrees, minutes, seconds,
                   IF num_len > 7 THEN int(SliceFrom(digit_string, 7)) ELSE 0,
                   IF num_len > 7 THEN num_len - 7 ELSE 0, "2-2-3")
        ELSE None

\* Columns: the 2-3-2 split (DDMMMSS)
old_try_232(digit_string) ==
    LET num_len == Len(digit_string)
        degrees == int(Slice(digit_string, 0, 2))
        minutes == int(Slice(digit_string, 2, 5))
        seconds == int(Slice(digit_string, 5, 7))
    IN  IF num_len >= 7 /\ degrees < 180 /\ minutes < 60 /\ seconds < 60
        THEN Angle(degrees, minutes, seconds,
                   IF num_len > 7 THEN int(SliceFrom(digit_string, 7)) ELSE 0,
                   IF num_len > 7 THEN num_len - 7 ELSE 0, "2-3-2")
        ELSE None

\* Columns: the splits tried when best_result is still None
old_fallback(digit_string) ==
    LET num_len == Len(digit_string)
        d2 == int(Slice(digit_string, 0, 2))
        d3 == int(Slice(digit_string, 0, 3))
    IN
    IF num_len = 6 THEN
        IF d2 < 180 /\ int(Slice(digit_string, 2, 4)) < 60
                    /\ int(Slice(digit_string, 4, 6)) < 60
        THEN Angle(d2, int(Slice(digit_string, 2, 4)),
                   int(Slice(digit_string, 4, 6)), 0, 0, "2-2-2 again")
        ELSE IF d3 < 180 /\ int(Slice(digit_string, 3, 5)) < 60
        THEN Angle(d3, int(Slice(digit_string, 3, 5)),
                   int(Slice(digit_string, 5, 6)), 0, 0, "3-2-1")
        ELSE None
    ELSE IF num_len = 5 THEN
        IF d2 < 180 /\ int(Slice(digit_string, 2, 4)) < 60
        THEN Angle(d2, int(Slice(digit_string, 2, 4)),
                   int(Slice(digit_string, 4, 5)), 0, 0, "2-2-1")
        ELSE IF d3 < 180 /\ int(Slice(digit_string, 3, 5)) < 60
        THEN Angle(d3, int(Slice(digit_string, 3, 5)), 0, 0, 0, "3-2")
        ELSE IF d2 < 180 /\ int(Slice(digit_string, 2, 5)) < 60
        THEN Angle(d2, int(Slice(digit_string, 2, 5)), 0, 0, 0, "2-3")
        ELSE None
    ELSE IF num_len = 4 THEN
        IF d2 < 180 /\ int(Slice(digit_string, 2, 4)) < 60
        THEN Angle(d2, int(Slice(digit_string, 2, 4)), 0, 0, 0, "2-2")
        ELSE IF d3 < 180
        THEN Angle(d3, 0, 0, 0, 0, "3-1")
        ELSE None
    ELSE IF num_len >= 3 THEN
        IF d3 < 180 THEN
            IF num_len > 3 /\ int(SliceFrom(digit_string, 3)) < 60
            THEN Angle(d3, int(SliceFrom(digit_string, 3)), 0, 0, 0, "3-rest")
            ELSE Angle(d3, 0, 0, 0, 0, "3")
        ELSE None
    ELSE IF num_len = 2 THEN
        Angle(int(digit_string), 0, 0, 0, 0, "2")
    ELSE None

\* Columns (max_digits_before_decimal == 3): the first candidate that
\* sets best_result, else the fallback splits.
old_columns(digit_string) ==
    LET r1 == old_try_322(digit_string)
        r2 == IF r1.ok THEN r1 ELSE old_try_222(digit_string)
        r3 == IF r2.ok THEN r2 ELSE old_try_223(digit_string)
        r4 == IF r3.ok THEN r3 ELSE old_try_232(digit_string)
    IN  IF r4.ok THEN r4 ELSE old_fallback(digit_string)

\* Rows: every length reads all of the run through int() before the
\* range check, so a letter anywhere raises
old_rows_raises(digit_string) == ~IsDigits(digit_string)

\* Columns: the int() calls that are reached.  A run of 2 to 6 digits is
\* read whole by the first split tried for its length; a run of 7 or more
\* has its first 7 characters read by the 3-2-2 split, and the rest read as
\* the fraction of an accepted candidate or as the minutes of the
\* elif num_len >= 3 branch; a run of 1 character is never read.
old_columns_raises(digit_string) ==
    LET num_len == Len(digit_string)
        head7 == Slice(digit_string, 0, 7)
    IN  IF num_len < 2 THEN FALSE
        ELSE IF num_len < 7 THEN ~IsDigits(digit_string)
        ELSE \/ ~IsDigits(head7)
             \/ /\ ~IsDigits(SliceFrom(digit_string, 7))
                /\ \/ old_try_322(head7).ok
                   \/ old_try_222(head7).ok
                   \/ old_try_223(head7).ok
                   \/ old_try_232(head7).ok
                   \/ int(Slice(digit_string, 0, 3)) < 180

old_parse_coordinate_from_digits(digit_string, max_value, max_digits_before_decimal) ==
    IF Len(digit_string) = 0 THEN None
    ELSE IF max_digits_before_decimal = 2 THEN
        IF old_rows_raises(digit_string) THEN ValueError
        ELSE old_rows(digit_string)
    ELSE IF max_digits_before_decimal = 3 THEN
        IF old_columns_raises(digit_string) THEN ValueError
        ELSE old_columns(digit_string)
    ELSE None

----------------------------------------------------------------------------
(* parse_coordinate_from_digits of 26-Jan/find_cities.py *)

\* Rows (max_digits_before_decimal == 2): the split fixed by the length.
fc_rows_fields(digit_string) ==
    LET num_len == Len(digit_string) IN
    IF num_len >= 6 THEN
        [degrees |-> int(Slice(digit_string, 0, 2)),
         minutes |-> int(Slice(digit_string, 2, 4)),
         seconds |-> int(Slice(digit_string, 4, 6)),
         fraction |-> IF num_len > 6 THEN int(SliceFrom(digit_string, 6)) ELSE 0,
         fdigits |-> IF num_len > 6 THEN num_len - 6 ELSE 0,
         branch |-> "rows>=6"]
    ELSE IF num_len = 5 THEN
        [degrees |-> int(Slice(digit_string, 0, 2)),
         minutes |-> int(Slice(digit_string, 2, 4)),
         seconds |-> int(Slice(digit_string, 4, 5)),
         fraction |-> 0, fdigits |-> 0, branch |-> "rows5"]
    ELSE IF num_len = 4 THEN
        [degrees |-> int(Slice(digit_string, 0, 2)),
         minutes |-> int(Slice(digit_string, 2, 4)),
         seconds |-> 0,
         fraction |-> 0, fdigits |-> 0, branch |-> "rows4"]
    ELSE IF num_len = 3 THEN
        [degrees |-> int(Slice(digit_string, 0, 2)),
         minutes |-> int(Slice(digit_string, 2, 3)),
         seconds |-> 0,
         fraction |-> 0, fdigits |-> 0, branch |-> "rows3"]
    ELSE
        [degrees |-> int(digit_string), minutes |-> 0, seconds |-> 0,
         fraction |-> 0, fdigits |-> 0, branch |-> "rows<=2"]

\* if minutes >= 60 or seconds >= 60 (seconds already holds the fraction)
fc_rows_invalid(minutes, seconds, fraction, fdigits) ==
    minutes >= 60 \/ seconds * Pow10(fdigits) + fraction >= 60 * Pow10(fdigits)

fc_rows(digit_string) ==
    LET f == fc_rows_fields(digit_string) IN
    IF fc_rows_invalid(f.minutes, f.seconds, f.fraction, f.fdigits) THEN None
    ELSE Angle(f.degrees, f.minutes, f.seconds, f.fraction, f.fdigits, f.branch)

\* Columns: the 3-2-2 split (DDDMMSS)
fc_try_322(digit_string) ==
    LET num_len == Len(digit_string)
        degrees == int(Slice(digit_string, 0, 3))
        minutes == int(Slice(digit_string, 3, 5))
        seconds == int(Slice(digit_string, 5, 7))
    IN  IF num_len >= 7 /\ degrees < 180 /\ minutes < 60 /\ seconds < 60
        THEN Angle(degrees, minutes, seconds,
                   IF num_len > 7 THEN int(SliceFrom(digit_string, 7)) ELSE 0,
                   IF num_len > 7 THEN num_len - 7 ELSE 0, "3-2-2")
        ELSE None

\* Columns: the 2-2-2 split (DDMMSS)
fc_try_222(digit_string) ==
    LET num_len == Len(digit_string)
        degrees == int(Slice(digit_string, 0, 2))
        minutes == int(Slice(digit_string, 2, 4))
        seconds == int(Slice(digit_string, 4, 6))
    IN  IF num_len >= 6 /\ degrees < 180 /\ minutes < 60 /\ seconds < 60
        THEN Angle(degrees, minutes, seconds,
                   IF num_len > 6 THEN int(SliceFrom(digit_string, 6)) ELSE 0,
                   IF num_len > 6 THEN num_len - 6 ELSE 0, "2-2-2")
        ELSE None

\* Columns: 2-2-2 once more for a run of exactly 6 digits
fc_retry_222(digit_string) ==
    LET num_len == Len(digit_string)
        degrees == int(Slice(digit_string, 0, 2))
        minutes == int(Slice(digit_string, 2, 4))
        seconds == int(Slice(digit_string, 4, 6))
    IN  IF num_len = 6 /\ degrees < 180 /\ minutes < 60 /\ seconds < 60
        THEN Angle(degrees, minutes, seconds, 0, 0, "2-2-2 again")
        ELSE None

\* Mutant of fc_columns: the 2-2-2 split is tried before the 3-2-2 split
fc_columns_222_first(digit_string) ==
    LET r1 == fc_try_222(digit_string)
        r2 == IF r1.ok THEN r1 ELSE fc_try_322(digit_string)
    IN  IF r2.ok THEN r2 ELSE fc_retry_222(digit_string)

\* Columns (max_digits_before_decimal == 3): 3-2-2, then 2-2-2, else None
fc_columns(digit_string) ==
    LET r1 == fc_try_322(digit_string)
        r2 == IF r1.ok THEN r1 ELSE fc_try_222(digit_string)
    IN  IF r2.ok THEN r2 ELSE fc_retry_222(digit_string)

\* Rows: every length reads all of the run through int() before the
\* range check, so a letter anywhere raises
fc_rows_raises(digit_string) == ~IsDigits(digit_string)

\* Columns: the int() calls that are reached.  A run shorter than 6 is
\* never read; a run of 6 is read whole by the 2-2-2 split; a run of 7 or
\* more has its first 7 characters read by the 3-2-2 split and the rest
\* read as the fraction of an accepted candidate.
fc_columns_raises(digit_string) ==
    LET num_len == Len(digit_string)
        head7 == Slice(digit_string, 0, 7)
    IN  IF num_len < 6 THEN FALSE
        ELSE IF num_len = 6 THEN ~IsDigits(digit_string)
        ELSE \/ ~IsDigits(head7)
             \/ /\ ~IsDigits(SliceFrom(digit_string, 7))
                /\ \/ fc_try_322(head7).ok
                   \/ fc_try_222(head7).ok

fc_parse_coordinate_from_digits(digit_string, max_value, max_digits_before_decimal) ==
    IF Len(digit_string) = 0 THEN None
    ELSE IF max_digits_before_decimal = 2 THEN
        IF fc_rows_raises(digit_string) THEN ValueError
        ELSE fc_rows(digit_string)
    ELSE IF max_digits_before_decimal = 3 THEN
        IF fc_columns_raises(digit_string) THEN ValueError
        ELSE fc_columns(digit_string)
    ELSE None

----------------------------------------------------------------------------
(* Python string and list operations used by main() *)

IsSpace(c) == c = " "

\* s.strip()
RECURSIVE Strip(_)
Strip(s) ==
    IF Len(s) = 0 THEN s
    ELSE IF IsSpace(s[1]) THEN Strip(Tail(s))
    ELSE IF IsSpace(s[Len(s)]) THEN Strip(SubSeq(s, 1, Len(s) - 1))
    ELSE s

\* line.replace("_", "").strip()
Clean(line) == Strip(SelectSeq(line, LAMBDA c : c # "_"))

Abs(x) == IF x < 0 THEN -x ELSE x

\* n whole degrees, in units
Deg(n) == n * 3600 * Unit

\* range(12), rows[:12] and the padding to 12 entries
NumEntries == 12

\* the index of the first line with not line.strip(), or -1 for None
RECURSIVE SeparatorFrom(_, _)
SeparatorFrom(lines, i) ==
    IF i >= Len(lines) THEN -1
    ELSE IF Len(Strip(lines[i + 1])) = 0 THEN i
    ELSE SeparatorFrom(lines, i + 1)

\* Mutant of separator_idx: the loop does not break, the last blank line wins
separator_idx_last(lines) ==
    IF \E i \in 1..Len(lines) : Len(Strip(lines[i])) = 0
    THEN (CHOOSE i \in 1..Len(lines) :
              /\ Len(Strip(lines[i])) = 0
              /\ \A j \in (i + 1)..Len(lines) : Len(Strip(lines[j])) # 0) - 1
    ELSE -1

separator_idx(lines) == SeparatorFrom(lines, 0)

\* the non-empty cleaned lines of lines[:separator_idx]
RECURSIVE CleanedLines(_)
CleanedLines(column_lines) ==
    IF Len(column_lines) = 0 THEN <<>>
    ELSE LET cleaned == Clean(Head(column_lines)) IN
         (IF Len(cleaned) > 0 THEN <<cleaned>> ELSE <<>>)
             \o CleanedLines(Tail(column_lines))

cleaned_column_lines(lines) ==
    CleanedLines(SubSeq(lines, 1, separator_idx(lines)))

\* the characters at position col_idx of the cleaned lines, top to bottom
RECURSIVE col_digits(_, _)
col_digits(cleaned, col_idx) ==
    IF Len(cleaned) = 0 THEN <<>>
    ELSE (IF col_idx < Len(Head(cleaned)) THEN <<Head(cleaned)[col_idx + 1]>>
          ELSE <<>>) \o col_digits(Tail(cleaned), col_idx)

\* lines[separator_idx + 1:]
row_lines(lines) == SubSeq(lines, separator_idx(lines) + 2, Len(lines))

\* one (digit string, value) entry of rows or columns; how tells which
\* statement appended it
Entry(str, val, how) == [str |-> str, val |-> val, how |-> how]

\* the embedded data of tz.py, as data.strip().split("\n") leaves it
EmbeddedData ==
    << <<"3","3","6","1","1","1","1","1","1","7","5","2">>,
       <<"0","6","0","0","4","5","6","3","1","9","6","5">>,
       <<"3","4","3","0","0","5","9","4","3","5","1","3">>,
       <<"1","9","5","2","4","2","5","5","2","3","0","7">>,
       <<"9","2","2","9","2","3","1","9","9","0","0","5">>,
       <<"_","7","8","1","5","3","0","0","3","1","7","6">>,
       <<"_","_","_","6","4","2","1","4","8","_","_","_">>,
       <<>>,
       <<>>,
       <<"3","2","4","5","0","6">>,
       <<"3","0","0","2","4","0">>,
       <<"4","0","2","7","0","0">>,
       <<"4","2","5","2","2","9">>,
       <<"3","1","1","4","0","9">>,
       <<"2","7","2","6","5","4">>,
       <<"3","6","5","2","0","1">>,
       <<"2","1","1","4","0","8">>,
       <<"3","2","3","0","4","7">>,
       <<"0","4","2","2","9","_">>,
       <<"1","4","3","9","5","7">>,
       <<"3","5","0","5","6","_">> >>

----------------------------------------------------------------------------
(* main() of 26-Jan/tz.py *)

\* Mutant of tz_sign: "+" keeps the sign and every other character flips it
tz_sign_not_inverted(c) == IF c = "+" THEN 1 ELSE -1

\* -1 if c == "+" else 1
tz_sign(c) == IF c = "+" THEN -1 ELSE 1

\* [line.strip() for line in f.readlines() if line.strip()]
RECURSIVE tz_offset_lines(_)
tz_offset_lines(file_lines) ==
    IF Len(file_lines) = 0 THEN <<>>
    ELSE (IF Len(Strip(Head(file_lines))) > 0 THEN <<Strip(Head(file_lines))>>
          ELSE <<>>) \o tz_offset_lines(Tail(file_lines))

\* the sign list taken from offset_lines[k - 1]; empty when offests.txt is
\* missing or has fewer than k non-blank lines
tz_signs(offsets, k) ==
    IF ~offsets.exists THEN <<>>
    ELSE LET offset_lines == tz_offset_lines(offsets.lines) IN
         IF Len(offset_lines) >= k
         THEN [i \in 1..Len(offset_lines[k]) |-> tz_sign(offset_lines[k][i])]
         ELSE <<>>

\* signs[idx] if idx < len(signs) else 1
tz_sign_at(signs, i) == IF i < Len(signs) THEN signs[i + 1] ELSE 1

\* the loop over col_idx in range(12): a column is appended only when it
\* has digits and decodes
RECURSIVE tz_extract_columns(_, _)
tz_extract_columns(cleaned, col_idx) ==
    IF col_idx >= NumEntries THEN <<>>
    ELSE LET digits == col_digits(cleaned, col_idx)
             coord == parse_coordinate_from_digits(digits, 180, 3)
         IN  (IF Len(digits) > 0 /\ coord.ok
              THEN <<Entry(digits, Abs(coord.value), "decoded")>>
              ELSE <<>>) \o tz_extract_columns(cleaned, col_idx + 1)

\* the loop over row_lines: a row is appended only when it is not blank,
\* has digits left after cleaning and decodes
RECURSIVE tz_extract_rows(_)
tz_extract_rows(rlines) ==
    IF Len(rlines) = 0 THEN <<>>
    ELSE LET cleaned == Clean(Head(rlines))
             coord == parse_coordinate_from_digits(cleaned, 90, 2)
         IN  (IF Len(cleaned) > 0 /\ coord.ok
              THEN <<Entry(cleaned, Abs(coord.value), "decoded")>>
              ELSE <<>>) \o tz_extract_rows(Tail(rlines))

\* the loop over col_idx is left through a ValueError of the decoder
tz_extract_columns_raises(cleaned) ==
    \E col_idx \in 0..(NumEntries - 1) :
        LET digits == col_digits(cleaned, col_idx) IN
        /\ Len(digits) > 0
        /\ parse_coordinate_from_digits(digits, 180, 3) = ValueError

\* the loop over row_lines is left through a ValueError of the decoder
tz_extract_rows_raises(rlines) ==
    \E i \in 1..Len(rlines) :
        LET cleaned == Clean(rlines[i]) IN
        /\ Len(cleaned) > 0
        /\ parse_coordinate_from_digits(cleaned, 90, 2) = ValueError

\* rows[:12]
FirstEntries(entries) ==
    SubSeq(entries, 1, IF Len(entries) < NumEntries THEN Len(entries) ELSE NumEntries)

\* if abs(lat_val) > 90 or abs(lon_val) > 180
tz_out_of_range(lat_val, lon_val) ==
    Abs(lat_val) > Deg(90) \/ Abs(lon_val) > Deg(180)

----------------------------------------------------------------------------
(* main() of Jan-26/tz.py *)

RECURSIVE old_extract_columns(_, _)
old_extract_columns(cleaned, col_idx) ==
    IF col_idx >= NumEntries THEN <<>>
    ELSE LET digits == col_digits(cleaned, col_idx)
             coord == old_parse_coordinate_from_digits(digits, 180, 3)
         IN  (IF Len(digits) > 0 /\ coord.ok
              THEN <<Entry(digits, coord.value, "decoded")>>
              ELSE <<>>) \o old_extract_columns(cleaned, col_idx + 1)

RECURSIVE old_extract_rows(_)
old_extract_rows(rlines) ==
    IF Len(rlines) = 0 THEN <<>>
    ELSE LET cleaned == Clean(Head(rlines))
             coord == old_parse_coordinate_from_digits(cleaned, 90, 2)
         IN  (IF Len(cleaned) > 0 /\ coord.ok
              THEN <<Entry(cleaned, coord.value, "decoded")>>
              ELSE <<>>) \o old_extract_rows(Tail(rlines))

old_extract_columns_raises(cleaned) ==
    \E col_idx \in 0..(NumEntries - 1) :
        LET digits == col_digits(cleaned, col_idx) IN
        /\ Len(digits) > 0
        /\ old_parse_coordinate_from_digits(digits, 180, 3) = ValueError

old_extract_rows_raises(rlines) ==
    \E i \in 1..Len(rlines) :
        LET cleaned == Clean(rlines[i]) IN
        /\ Len(cleaned) > 0
        /\ old_parse_coordinate_from_digits(cleaned, 90, 2) = ValueError

\* if abs(lat) > 90 or abs(lon) > 180
old_out_of_range(lat, lon) == Abs(lat) > Deg(90) \/ Abs(lon) > Deg(180)

----------------------------------------------------------------------------
(* main() of 26-Jan/find_cities.py *)

\* -1 if c == "+" else 1
fc_sign(c) == IF c = "+" THEN -1 ELSE 1

RECURSIVE fc_offset_lines(_)
fc_offset_lines(file_lines) ==
    IF Len(file_lines) = 0 THEN <<>>
    ELSE (IF Len(Strip(Head(file_lines))) > 0 THEN <<Strip(Head(file_lines))>>
          ELSE <<>>) \o fc_offset_lines(Tail(file_lines))

fc_signs(offsets, k) ==
    IF ~offsets.exists THEN <<>>
    ELSE LET offset_lines == fc_offset_lines(offsets.lines) IN
         IF Len(offset_lines) >= k
         THEN [i \in 1..Len(offset_lines[k]) |-> fc_sign(offset_lines[k][i])]
         ELSE <<>>

fc_sign_at(signs, i) == IF i < Len(signs) THEN signs[i + 1] ELSE 1

\* The value kept for a run of 4 or more digits that did not decode: last
\* two digits seconds, the two before minutes, the rest degrees, carried
\* and reduced modulo bound when above it.
fc_recover(digit_string, bound) ==
    LET n == Len(digit_string)
        seconds0 == int(SubSeq(digit_string, n - 1, n))
        minutes0 == int(SubSeq(digit_string, n - 3, n - 2))
        degrees0 == IF n > 4 THEN int(SubSeq(digit_string, 1, n - 4)) ELSE 0
        minutes1 == IF seconds0 >= 60 THEN minutes0 + (seconds0 \div 60) ELSE minutes0
        seconds == IF seconds0 >= 60 THEN seconds0 % 60 ELSE seconds0
        degrees1 == IF minutes1 >= 60 THEN degrees0 + (minutes1 \div 60) ELSE degrees0
        minutes == IF minutes1 >= 60 THEN minutes1 % 60 ELSE minutes1
        degrees == IF degrees1 > bound THEN degrees1 % bound ELSE degrees1
    IN  (degrees * 60 + minutes) * 60 * Unit + seconds * Unit

\* the entry appended for one digit string: decoded, else recovered, else
\* 0.0 (also when an int() of the recovery raises inside its try)
fc_column_entry(digit_string) ==
    LET coord == fc_parse_coordinate_from_digits(digit_string, 180, 3) IN
    IF coord.ok THEN Entry(digit_string, Abs(coord.value), "decoded")
    ELSE IF Len(digit_string) >= 4 /\ IsDigits(digit_string)
    THEN Entry(digit_string, Abs(fc_recover(digit_string, 180)), "recovered")
    ELSE Entry(digit_string, 0, "default")

fc_row_entry(cleaned) ==
    LET coord == fc_parse_coordinate_from_digits(cleaned, 90, 2) IN
    IF coord.ok THEN Entry(cleaned, Abs(coord.value), "decoded")
    ELSE IF Len(cleaned) >= 4 /\ IsDigits(cleaned)
    THEN Entry(cleaned, Abs(fc_recover(cleaned, 90)), "recovered")
    ELSE Entry(cleaned, 0, "default")

RECURSIVE fc_extract_columns(_, _)
fc_extract_columns(cleaned, col_idx) ==
    IF col_idx >= NumEntries THEN <<>>
    ELSE LET digits == col_digits(cleaned, col_idx) IN
         (IF Len(digits) > 0 THEN <<fc_column_entry(digits)>> ELSE <<>>)
             \o fc_extract_columns(cleaned, col_idx + 1)

RECURSIVE fc_extract_rows(_)
fc_extract_rows(rlines) ==
    IF Len(rlines) = 0 THEN <<>>
    ELSE LET cleaned == Clean(Head(rlines)) IN
         (IF Len(cleaned) > 0 THEN <<fc_row_entry(cleaned)>> ELSE <<>>)
             \o fc_extract_rows(Tail(rlines))

\* the decoder is called outside the try of the recovery: its ValueError
\* leaves the loop over col_idx
fc_extract_columns_raises(cleaned) ==
    \E col_idx \in 0..(NumEntries - 1) :
        LET digits == col_digits(cleaned, col_idx) IN
        /\ Len(digits) > 0
        /\ fc_parse_coordinate_from_digits(digits, 180, 3) = ValueError

fc_extract_rows_raises(rlines) ==
    \E i \in 1..Len(rlines) :
        LET cleaned == Clean(rlines[i]) IN
        /\ Len(cleaned) > 0
        /\ fc_parse_coordinate_from_digits(cleaned, 90, 2) = ValueError

\* while len(entries) < 12: entries.append((zeros, 0.0)); entries[:12]
fc_pad(entries, zeros) ==
    [i \in 1..NumEntries |->
        IF i <= Len(entries) THEN entries[i] ELSE Entry(zeros, 0, "padding")]

\* Mutant of fc_lat_invalid: the longitude bound is used for latitude
fc_lat_invalid_180(lat_val) == Abs(lat_val) > Deg(180)

\* if abs(lat_val) > 90
fc_lat_invalid(lat_val) == Abs(lat_val) > Deg(90)

\* if abs(lon_val) > 180
fc_lon_invalid(lon_val) == Abs(lon_val) > Deg(180)

----------------------------------------------------------------------------
(* The decoder called on one digit run: the copy of 26-Jan/tz.py, then     *)
(* the copy of Jan-26/tz.py, then the copy of find_cities.py                *)

VARIABLES
    digit_string,              \* the digit run handed to the decoder
    max_digits_before_decimal, \* 2 for rows (latitude), 3 for columns (longitude)
    coord_tz,                  \* what 26-Jan/tz.py's decoder returned
    coord_old,                 \* what Jan-26/tz.py's decoder returned
    coord_fc,                  \* what find_cities.py's decoder returned
    prog,                      \* the script that runs: "tz", "old", "fc" ("" for none)
    data,                      \* data.txt: [exists, lines]
    offsets,                   \* offests.txt: [exists, lines]
    tf_available,              \* the timezonefinder import succeeded
    pc,                        \* where main() stands
    error,                     \* the error main() printed before returning, or ""
    columns,                   \* the list columns of main()
    rows,                      \* the list rows of main()
    column_signs,              \* the list column_signs of main()
    row_signs,                 \* the list row_signs of main()
    idx,                       \* the loop index
    calls,                     \* the calls made to collaborators, in order
    reports                    \* the entries reported as out of range and skipped

decode_vars == <<digit_string, max_digits_before_decimal, coord_tz, coord_old, coord_fc>>

main_vars == <<prog, data, offsets, tf_available, pc, error, columns, rows,
               column_signs, row_signs, idx, calls, reports>>

vars == <<decode_vars, main_vars>>

\* the decoder has not been called yet
Pending ==
    [ok |-> FALSE, value |-> 0, degrees |-> 0, minutes |-> 0, seconds |-> 0,
     fraction |-> 0, fdigits |-> 0, branch |-> "pending"]

Str1(a) == <<a>>
Str2(a, b) == <<a, b>>
Str5(a, b, c, d, e) == <<a, b, c, d, e>>
Str6(a, b, c, d, e, f) == <<a, b, c, d, e, f>>
Str7(a, b, c, d, e, f, g) == <<a, b, c, d, e, f, g>>
Str8(a, b, c, d, e, f, g, h) == <<a, b, c, d, e, f, g, h>>

\* Runs over the bounded alphabet, every length 0..MaxLen
BoundedRuns == UNION {[1..n -> DigitAlphabet] : n \in 0..MaxLen}

\* The runs the scenarios name, and runs at the edges of the range checks
ScenarioRuns ==
    {Str6("3", "2", "4", "5", "0", "6"),
     Str7("3", "0", "3", "1", "9", "7", "6"),
     Str5("0", "4", "2", "2", "9"),
     Str7("1", "7", "9", "5", "9", "5", "9"),
     Str7("1", "8", "0", "0", "0", "0", "0"),
     Str7("1", "7", "6", "6", "0", "0", "0"),
     Str6("8", "9", "5", "9", "5", "9"),
     Str6("9", "5", "0", "0", "0", "0"),
     Str2("9", "5"), Str2("9", "0"), Str1("7"),
     Str8("3", "2", "4", "5", "0", "6", "0", "5"),
     Str8("3", "2", "4", "5", "5", "9", "9", "9"),
     Str8("1", "0", "0", "1", "0", "5", "9", "5"),
     Str8("1", "0", "0", "1", "0", "1", "0", "5"),
     Str8("9", "9", "0", "0", "0", "0", "1", "2")}

Runs == BoundedRuns \cup ScenarioRuns

\* max_value as the callers pass it
MaxValueOf(width) == IF width = 2 THEN 90 ELSE 180

DecodeInit ==
    /\ digit_string \in Runs
    /\ max_digits_before_decimal \in {2, 3}
    /\ coord_tz = Pending
    /\ coord_old = Pending
    /\ coord_fc = Pending
    /\ prog = ""
    /\ data = [exists |-> FALSE, lines |-> <<>>]
    /\ offsets = [exists |-> FALSE, lines |-> <<>>]
    /\ tf_available = FALSE
    /\ pc = "decode"
    /\ error = ""
    /\ columns = <<>>
    /\ rows = <<>>
    /\ column_signs = <<>>
    /\ row_signs = <<>>
    /\ idx = 0
    /\ calls = <<>>
    /\ reports = <<>>

CallTz ==
    /\ pc = "decode"
    /\ coord_tz = Pending
    /\ coord_tz' = parse_coordinate_from_digits(
                       digit_string, MaxValueOf(max_digits_before_decimal),
                       max_digits_before_decimal)
    /\ UNCHANGED <<digit_string, max_digits_before_decimal, coord_old, coord_fc, main_vars>>

CallOld ==
    /\ pc = "decode"
    /\ coord_tz # Pending
    /\ coord_old = Pending
    /\ coord_old' = old_parse_coordinate_from_digits(
                        digit_string, MaxValueOf(max_digits_before_decimal),
                        max_digits_before_decimal)
    /\ UNCHANGED <<digit_string, max_digits_before_decimal, coord_tz, coord_fc, main_vars>>

CallFc ==
    /\ pc = "decode"
    /\ coord_old # Pending
    /\ coord_fc = Pending
    /\ coord_fc' = fc_parse_coordinate_from_digits(
                       digit_string, MaxValueOf(max_digits_before_decimal),
                       max_digits_before_decimal)
    /\ UNCHANGED <<digit_string, max_digits_before_decimal, coord_tz, coord_old, main_vars>>

DecodeNext == CallTz \/ CallOld \/ CallFc

SpecDecode == DecodeInit /\ [][DecodeNext]_vars

----------------------------------------------------------------------------
(* The three scripts run on a grid file and a sign file *)

\* Most lines drawn freely for the columns section of a grid
MaxColLines == 2

\* Most lines drawn freely for the rows section of a grid
MaxRowLines == 2

\* Most lines drawn freely for a sign file
MaxSignLines == 2

Str3(a, b, c) == <<a, b, c>>
Str4(a, b, c, d) == <<a, b, c, d>>

SeqsUpTo(S, n) == UNION {[1..k -> S] : k \in 0..n}

ColLinePool == {Str2("1", "9"), Str2("_", "4"), Str2("6", "0")}

RowLinePool ==
    {Str2("9", "5"), Str2("9", "0"), Str4("0", "1", "6", "0"), Str3("4", "_", "5")}

\* no blank line, an empty line, a line of one space
Separators == {<<>>, <<(<<>>)>>, <<Str1(" ")>>}

Grids ==
    {c \o sep \o r : c \in SeqsUpTo(ColLinePool, MaxColLines),
                     sep \in Separators,
                     r \in SeqsUpTo(RowLinePool, MaxRowLines)}

File(lines) == [exists |-> TRUE, lines |-> lines]
Missing == [exists |-> FALSE, lines |-> <<>>]

SignLinePool == {Str2("+", "-"), Str2(" ", "+"), Str1("-"), <<>>}

\* sign files met with every grid
FewSignFiles == {Missing, File(<<Str2("+", "-"), Str2("-", "+")>>)}

\* sign files met with a few grids
ManySignFiles == {Missing} \cup {File(l) : l \in SeqsUpTo(SignLinePool, MaxSignLines)}

\* grids met with every sign file: two lines of columns, a separator of
\* one space, two rows; and the sample grid
FewGrids ==
    {<<Str2("1", "9"), Str2("6", "0"), Str1(" "), Str2("9", "5"), Str2("9", "0")>>,
     EmbeddedData}

\* a section of n lines, all equal to line
Repeat(line, n) == [i \in 1..n |-> line]

\* grids with a letter in a row, with letters in the columns section, with
\* one row more than NumEntries, with a whitespace-only separator and a blank
\* line between the rows, with three column lines whose first column does not
\* decode, and with a six-digit row whose minutes field is 61
OddGrids ==
    {<<Str2("1", "9"), Str2("6", "0"), <<>>, Str2("9", "x"), Str2("9", "0")>>,
     <<Str2("1", "x"), <<>>, Str2("9", "0")>>,
     <<Str2("1", "x"), Str2("6", "x"), <<>>, Str2("9", "0")>>,
     <<Str2("1", "9"), Str2("6", "0"), <<>>>>
         \o Repeat(Str2("9", "5"), NumEntries) \o <<Str2("9", "0")>>,
     <<Str2("1", "9"), Str2("6", "0"), <<" ">>, Str2("9", "5"), <<>>,
       Str2("9", "0")>>,
     <<Str2("1", "0"), Str2("9", "6"), Str2("9", "0"), <<>>, Str2("4", "5"),
       Str2("1", "6")>>,
     <<Str2("1", "9"), Str2("6", "0"), <<>>,
       Str6("8", "9", "6", "1", "3", "0"), Str2("9", "0")>>}

Scripts == {"tz", "old", "fc"}

MainInit ==
    /\ digit_string = <<>>
    /\ max_digits_before_decimal = 2
    /\ coord_tz = Pending
    /\ coord_old = Pending
    /\ coord_fc = Pending
    /\ prog \in Scripts
    /\ \/ /\ data \in {File(g) : g \in Grids}
          /\ offsets \in FewSignFiles
          /\ tf_available = TRUE
       \/ /\ data \in {Missing} \cup {File(g) : g \in FewGrids}
          /\ offsets \in ManySignFiles
          /\ tf_available \in BOOLEAN
       \/ /\ data \in {File(g) : g \in OddGrids}
          /\ offsets \in FewSignFiles
          /\ tf_available = TRUE
    /\ pc = "start"
    /\ error = ""
    /\ columns = <<>>
    /\ rows = <<>>
    /\ column_signs = <<>>
    /\ row_signs = <<>>
    /\ idx = 0
    /\ calls = <<>>
    /\ reports = <<>>

Min(a, b) == IF a < b THEN a ELSE b

Return(msg) ==
    /\ pc' = "done"
    /\ error' = msg
    /\ UNCHANGED <<columns, rows, column_signs, row_signs>>

\* main() is left through an uncaught exception
Raise(exc) ==
    /\ pc' = "raised"
    /\ error' = exc
    /\ UNCHANGED <<columns, rows, column_signs, row_signs>>

\* a call of a collaborator
Call(fn, i, axis, lat, lng, lat_val, lon_val, lat_sign, lon_sign) ==
    [fn |-> fn, idx |-> i, axis |-> axis, lat |-> lat, lng |-> lng,
     lat_val |-> lat_val, lon_val |-> lon_val,
     lat_sign |-> lat_sign, lon_sign |-> lon_sign]

\* an entry printed as out of range and skipped
Report(i, axis, lat_val, lon_val, lat_sign, lon_sign) ==
    [idx |-> i, axis |-> axis, lat_val |-> lat_val, lon_val |-> lon_val,
     lat_sign |-> lat_sign, lon_sign |-> lon_sign]

\* 26-Jan/tz.py main(): from reading the files to the start of the pair loop
TzStart ==
    /\ prog = "tz" /\ pc = "start"
    /\ LET lines == IF data.exists THEN data.lines ELSE EmbeddedData IN
       IF separator_idx(lines) = -1
       THEN Return("Could not find separator")
       ELSE IF \/ tz_extract_columns_raises(cleaned_column_lines(lines))
               \/ tz_extract_rows_raises(row_lines(lines))
       THEN Raise("ValueError")
       ELSE LET cols == tz_extract_columns(cleaned_column_lines(lines), 0)
                rws == FirstEntries(tz_extract_rows(row_lines(lines)))
            IN  /\ columns' = cols
                /\ rows' = rws
                /\ column_signs' = tz_signs(offsets, 1)
                /\ row_signs' = tz_signs(offsets, 2)
                /\ IF ~tf_available
                   THEN pc' = "done" /\ error' = "timezonefinder library is required"
                   ELSE /\ pc' = IF Min(Len(rws), Len(cols)) = 0 THEN "done" ELSE "pairs"
                        /\ error' = ""
    /\ UNCHANGED <<decode_vars, prog, data, offsets, tf_available, idx, calls, reports>>

\* 26-Jan/tz.py main(): one iteration of the loop over the pairs
TzPair ==
    /\ prog = "tz" /\ pc = "pairs"
    /\ LET lat_sign == tz_sign_at(row_signs, idx)
           lon_sign == tz_sign_at(column_signs, idx)
           lat_val == rows[idx + 1].val * lat_sign
           lon_val == columns[idx + 1].val * lon_sign
       IN  IF tz_out_of_range(lat_val, lon_val)
           THEN /\ reports' = Append(reports,
                        Report(idx, "pair", lat_val, lon_val, lat_sign, lon_sign))
                /\ calls' = calls
           ELSE /\ calls' = Append(calls,
                        Call("timezone_at", idx, "pair", lat_val, lon_val,
                             lat_val, lon_val, lat_sign, lon_sign))
                /\ reports' = reports
    /\ idx' = idx + 1
    /\ pc' = IF idx + 1 < Min(Len(rows), Len(columns)) THEN "pairs" ELSE "done"
    /\ UNCHANGED <<decode_vars, prog, data, offsets, tf_available, error,
                   columns, rows, column_signs, row_signs>>

\* Jan-26/tz.py main(): from reading the file to the start of the pair loop
OldStart ==
    /\ prog = "old" /\ pc = "start"
    /\ LET lines == IF data.exists THEN data.lines ELSE EmbeddedData IN
       IF separator_idx(lines) = -1
       THEN Return("Could not find separator")
       ELSE IF \/ old_extract_columns_raises(cleaned_column_lines(lines))
               \/ old_extract_rows_raises(row_lines(lines))
       THEN Raise("ValueError")
       ELSE LET cols == old_extract_columns(cleaned_column_lines(lines), 0)
                rws == FirstEntries(old_extract_rows(row_lines(lines)))
            IN  /\ columns' = cols
                /\ rows' = rws
                /\ UNCHANGED <<column_signs, row_signs>>
                /\ IF ~tf_available
                   THEN pc' = "done" /\ error' = "timezonefinder library is required"
                   ELSE /\ pc' = IF Min(Len(rws), Len(cols)) = 0 THEN "done" ELSE "pairs"
                        /\ error' = ""
    /\ UNCHANGED <<decode_vars, prog, data, offsets, tf_available, idx, calls, reports>>

\* Jan-26/tz.py main(): one iteration of the loop over the pairs; a pair
\* that is out of range is tried once more with latitude and longitude
\* swapped
OldPair ==
    /\ prog = "old" /\ pc = "pairs"
    /\ LET row_val == rows[idx + 1].val
           col_val == columns[idx + 1].val
       IN  IF ~old_out_of_range(row_val, col_val)
           THEN /\ calls' = Append(calls,
                        Call("timezone_at", idx, "pair", row_val, col_val,
                             row_val, col_val, 1, 1))
                /\ reports' = reports
           ELSE IF ~old_out_of_range(col_val, row_val)
           THEN /\ calls' = Append(calls,
                        Call("timezone_at", idx, "pair", col_val, row_val,
                             row_val, col_val, 1, 1))
                /\ reports' = reports
           ELSE /\ reports' = Append(reports,
                        Report(idx, "pair", row_val, col_val, 1, 1))
                /\ calls' = calls
    /\ idx' = idx + 1
    /\ pc' = IF idx + 1 < Min(Len(rows), Len(columns)) THEN "pairs" ELSE "done"
    /\ UNCHANGED <<decode_vars, prog, data, offsets, tf_available, error,
                   columns, rows, column_signs, row_signs>>

\* find_cities.py main(): from reading the files to the start of the
\* latitude loop
FcStart ==
    /\ prog = "fc" /\ pc = "start"
    /\ IF ~data.exists
       THEN Return("data.txt not found")
       ELSE IF separator_idx(data.lines) = -1
       THEN Return("Could not find separator")
       ELSE IF \/ fc_extract_columns_raises(cleaned_column_lines(data.lines))
               \/ fc_extract_rows_raises(row_lines(data.lines))
       THEN Raise("ValueError")
       ELSE /\ columns' = fc_pad(fc_extract_columns(cleaned_column_lines(data.lines), 0),
                                 Str7("0", "0", "0", "0", "0", "0", "0"))
            /\ rows' = fc_pad(fc_extract_rows(row_lines(data.lines)),
                              Str6("0", "0", "0", "0", "0", "0"))
            /\ column_signs' = fc_signs(offsets, 1)
            /\ row_signs' = fc_signs(offsets, 2)
            /\ pc' = "lat_lines"
            /\ error' = ""
    /\ UNCHANGED <<decode_vars, prog, data, offsets, tf_available, idx, calls, reports>>

\* find_cities.py main(): one iteration of the loop over rows
FcLatLine ==
    /\ prog = "fc" /\ pc = "lat_lines"
    /\ LET lat_sign == fc_sign_at(row_signs, idx)
           lat_val == rows[idx + 1].val * lat_sign
       IN  IF fc_lat_invalid(lat_val)
           THEN /\ reports' = Append(reports, Report(idx, "lat", lat_val, 0, lat_sign, 1))
                /\ calls' = calls
           ELSE /\ calls' = Append(calls,
                        Call("find_cities_along_line", idx, "lat", lat_val, 0,
                             lat_val, 0, lat_sign, 1))
                /\ reports' = reports
    /\ IF idx + 1 < Len(rows)
       THEN idx' = idx + 1 /\ pc' = "lat_lines"
       ELSE idx' = 0 /\ pc' = "lon_lines"
    /\ UNCHANGED <<decode_vars, prog, data, offsets, tf_available, error,
                   columns, rows, column_signs, row_signs>>

\* find_cities.py main(): one iteration of the loop over columns
FcLonLine ==
    /\ prog = "fc" /\ pc = "lon_lines"
    /\ LET lon_sign == fc_sign_at(column_signs, idx)
           lon_val == columns[idx + 1].val * lon_sign
       IN  IF fc_lon_invalid(lon_val)
           THEN /\ reports' = Append(reports, Report(idx, "lon", 0, lon_val, 1, lon_sign))
                /\ calls' = calls
           ELSE /\ calls' = Append(calls,
                        Call("find_cities_along_line", idx, "lon", 0, lon_val,
                             0, lon_val, 1, lon_sign))
                /\ reports' = reports
    /\ idx' = idx + 1
    /\ pc' = IF idx + 1 < Len(columns) THEN "lon_lines" ELSE "done"
    /\ UNCHANGED <<decode_vars, prog, data, offsets, tf_available, error,
                   columns, rows, column_signs, row_signs>>

MainNext ==
    \/ TzStart \/ TzPair
    \/ OldStart \/ OldPair
    \/ FcStart \/ FcLatLine \/ FcLonLine

SpecMain == MainInit /\ [][MainNext]_vars

\* The decoder called on its own and the scripts run on their files, in one
\* specification
AllInit == DecodeInit \/ MainInit

AllNext == DecodeNext \/ MainNext

SpecAll == AllInit /\ [][AllNext]_vars

----------------------------------------------------------------------------
(* Properties of the decoder *)

Returned(c) == c # Pending

IsLatitude == max_digits_before_decimal = 2
IsLongitude == max_digits_before_decimal = 3

\* A magnitude in units, from whole degrees, minutes, seconds and k fraction digits
Magnitude(deg, min, sec, frac, k) ==
    deg * 3600 * Unit + min * 60 * Unit + sec * Unit + frac * Pow10(MaxFrac - k)

\* The latitude table of the specification: the fields by length alone
LatDeg(d) == int(Slice(d, 0, 2))
LatMin(d) == IF Len(d) >= 4 THEN int(Slice(d, 2, 4))
             ELSE IF Len(d) = 3 THEN int(Slice(d, 2, 3)) ELSE 0
LatSec(d) == IF Len(d) >= 6 THEN int(Slice(d, 4, 6))
             ELSE IF Len(d) = 5 THEN int(Slice(d, 4, 5)) ELSE 0
LatFrac(d) == IF Len(d) > 6 THEN int(SliceFrom(d, 6)) ELSE 0
LatFracDigits(d) == IF Len(d) > 6 THEN Len(d) - 6 ELSE 0
LatInRange(d) == LatMin(d) < 60 /\ LatSec(d) < 60
LatMagnitude(d) ==
    Magnitude(LatDeg(d), LatMin(d), LatSec(d), LatFrac(d), LatFracDigits(d))

C1_Holds(c) ==
    (Returned(c) /\ IsLatitude /\ Len(digit_string) > 0 /\ LatInRange(digit_string))
        => (c.ok /\ c.value = LatMagnitude(digit_string))

Valid322(d) ==
    /\ Len(d) >= 7
    /\ int(Slice(d, 0, 3)) < 180
    /\ int(Slice(d, 3, 5)) < 60
    /\ int(Slice(d, 5, 7)) < 60
Value322(d) ==
    Magnitude(int(Slice(d, 0, 3)), int(Slice(d, 3, 5)), int(Slice(d, 5, 7)),
              IF Len(d) > 7 THEN int(SliceFrom(d, 7)) ELSE 0,
              IF Len(d) > 7 THEN Len(d) - 7 ELSE 0)
Valid222(d) ==
    /\ Len(d) >= 6
    /\ int(Slice(d, 2, 4)) < 60
    /\ int(Slice(d, 4, 6)) < 60
Value222(d) ==
    Magnitude(int(Slice(d, 0, 2)), int(Slice(d, 2, 4)), int(Slice(d, 4, 6)),
              IF Len(d) > 6 THEN int(SliceFrom(d, 6)) ELSE 0,
              IF Len(d) > 6 THEN Len(d) - 6 ELSE 0)
Valid223(d) ==
    /\ Len(d) >= 7
    /\ int(Slice(d, 2, 4)) < 60
Value223(d) ==
    Magnitude(int(Slice(d, 0, 2)), int(Slice(d, 2, 4)), int(Slice(d, 4, 7)),
              IF Len(d) > 7 THEN int(SliceFrom(d, 7)) ELSE 0,
              IF Len(d) > 7 THEN Len(d) - 7 ELSE 0)
Valid232(d) ==
    /\ Len(d) >= 7
    /\ int(Slice(d, 2, 5)) < 60
    /\ int(Slice(d, 5, 7)) < 60

C3_Holds(c) ==
    (Returned(c) /\ IsLongitude) =>
        /\ Valid322(digit_string)
             => (c.ok /\ c.branch = "3-2-2" /\ c.value = Value322(digit_string))
        /\ c.branch = "2-2-2"
             => /\ Len(digit_string) = 6 \/ ~Valid322(digit_string)
                /\ Valid222(digit_string)
                /\ c.value = Value222(digit_string)

\* C3: a longitude run of 7 or more digits whose 3-2-2 split is in range
\* decodes to the 3-2-2 result, also when its 2-2-2 split is in range; the
\* 2-2-2 result is returned only when the 3-2-2 split is invalid or the run
\* has exactly 6 digits (26-Jan/tz.py and find_cities.py); in 26-Jan/tz.py
\* the later candidates 2-2-3 and 2-3-2 are returned only when every
\* earlier candidate is invalid.
C3_LongitudePriority ==
    /\ C3_Holds(coord_tz)
    /\ C3_Holds(coord_fc)
    /\ (Returned(coord_tz) /\ IsLongitude) =>
        /\ (~Valid322(digit_string) /\ Valid222(digit_string))
             => (coord_tz.ok /\ coord_tz.branch = "2-2-2"
                 /\ coord_tz.value = Value222(digit_string))
        /\ coord_tz.branch = "2-2-3"
             => (~Valid322(digit_string) /\ ~Valid222(digit_string))
        /\ coord_tz.branch = "2-3-2"
             => (~Valid322(digit_string) /\ ~Valid222(digit_string)
                 /\ ~Valid223(digit_string))

\* C3 witness: both the 3-2-2 and the 2-2-2 split of the run are in range,
\* they give different magnitudes, and both copies returned the 3-2-2 one.
C3_Witness ==
    /\ IsLongitude
    /\ Valid322(digit_string) /\ Valid222(digit_string)
    /\ Value322(digit_string) # Value222(digit_string)
    /\ coord_tz.ok /\ coord_tz.value = Value322(digit_string)
    /\ coord_fc.ok /\ coord_fc.value = Value322(digit_string)

C4_Holds(c) ==
    (Returned(c) /\ IsLongitude) =>
        /\ Len(digit_string) < 2 => ~c.ok
        /\ (Len(digit_string) >= 7
              /\ ~Valid322(digit_string) /\ ~Valid222(digit_string)
              /\ ~Valid223(digit_string) /\ ~Valid232(digit_string)) => ~c.ok

\* C4: a longitude run shorter than 2 digits fails to decode, and so does
\* a run of 7 or more digits on which the 3-2-2, 2-2-2, 2-2-3 and 2-3-2
\* candidates are all invalid (26-Jan/tz.py and Jan-26/tz.py).
C4_LongitudeFailure ==
    /\ C4_Holds(coord_tz)
    /\ C4_Holds(coord_old)

C5_Holds(c) ==
    (Returned(c) /\ c.ok) =>
        /\ c.minutes >= 0 /\ c.minutes < 60
        /\ c.seconds >= 0
        /\ c.seconds * Pow10(c.fdigits) + c.fraction < 60 * Pow10(c.fdigits)
        /\ c.value = Magnitude(c.degrees, c.minutes, c.seconds, c.fraction, c.fdigits)

\* C5: every successfully decoded angle, on either axis and from whichever
\* candidate, has minutes in [0,60) and seconds (fraction included) in
\* [0,60), and its magnitude is degrees + minutes/60 + seconds/3600.
C5_DecodedAngleFields ==
    /\ C5_Holds(coord_tz)
    /\ C5_Holds(coord_old)
    /\ C5_Holds(coord_fc)

C6_Holds(c) ==
    (Returned(c) /\ IsLongitude
       /\ digit_string = Str7("3", "0", "3", "1", "9", "7", "6"))
        => (c.ok /\ c.degrees = 30 /\ c.minutes = 31 /\ c.seconds = 976
            /\ c.value = Magnitude(30, 31, 976, 0, 0))

\* C6: "3031976" on the longitude axis decodes, in every decoder copy of
\* the repository, to the 2-2-3 candidate: degrees 30, minutes 31,
\* seconds 976.
C6_Scenario3031976 ==
    /\ C6_Holds(coord_tz)
    /\ C6_Holds(coord_old)
    /\ C6_Holds(coord_fc)

C7_Holds(c) ==
    (Returned(c) /\ IsLongitude /\ Len(digit_string) = 5) =>
        /\ int(Slice(digit_string, 2, 4)) < 60
             => (c.ok /\ c.value = Magnitude(int(Slice(digit_string, 0, 2)),
                                             int(Slice(digit_string, 2, 4)),
                                             int(Slice(digit_string, 4, 5)), 0, 0))
        /\ (int(Slice(digit_string, 2, 4)) >= 60
              /\ int(Slice(digit_string, 0, 3)) < 180
              /\ int(Slice(digit_string, 3, 5)) < 60)
             => (c.ok /\ c.value = Magnitude(int(Slice(digit_string, 0, 3)),
                                             int(Slice(digit_string, 3, 5)), 0, 0, 0))
        /\ digit_string = Str5("0", "4", "2", "2", "9")
             => (c.ok /\ c.value = 15729 * Unit)

\* C7: a longitude run of 5 digits decodes to its 2-2-1 split when
\* d[2:4] < 60, otherwise to its 3-2 split when d[0:3] < 180 and
\* d[3:5] < 60; "04229" is 15729 arc-seconds (26-Jan/tz.py and
\* find_cities.py).
C7_LongitudeLength5 ==
    /\ C7_Holds(coord_tz)
    /\ C7_Holds(coord_fc)

----------------------------------------------------------------------------
(* Properties of main() *)

\* the elements of a sequence
Elems(seq) == {seq[i] : i \in 1..Len(seq)}

\* the records of the entries main() has dealt with so far
Handled == Elems(calls) \cup Elems(reports)

UsesLatitude(r) == r.axis \in {"pair", "lat"}
UsesLongitude(r) == r.axis \in {"pair", "lon"}

\* the rows loop of find_cities.py has dealt with rows[i]
FcRowHandled(i) ==
    /\ prog = "fc"
    /\ \/ pc = "lat_lines" /\ i <= idx
       \/ pc \in {"lon_lines", "done"} /\ error = ""

RawSign(file, k, i) ==
    IF /\ file.exists
       /\ Len(file.lines) >= k
       /\ i < Len(file.lines[k])
       /\ file.lines[k][i + 1] = "+"
    THEN -1 ELSE 1

\* The lines of the sign file that hold a character other than a space
HasInk(line) == \E j \in 1..Len(line) : line[j] # " "
InkLines(file) == {j \in 1..Len(file.lines) : HasInk(file.lines[j])}
FirstInk(line) == CHOOSE j \in 1..Len(line) :
                      line[j] # " " /\ \A h \in 1..(j - 1) : line[h] = " "
LastInk(line) == CHOOSE j \in 1..Len(line) :
                     line[j] # " " /\ \A h \in (j + 1)..Len(line) : line[h] = " "

\* The sign the sign file gives entry i through the k-th of its lines that
\* are not blank, counted from the first character of that line that is not
\* a space and no further than its last one
StrippedSign(file, k, i) ==
    IF /\ file.exists
       /\ \E j \in InkLines(file) :
            /\ Cardinality({h \in InkLines(file) : h <= j}) = k
            /\ FirstInk(file.lines[j]) + i <= LastInk(file.lines[j])
            /\ file.lines[j][FirstInk(file.lines[j]) + i] = "+"
    THEN -1 ELSE 1

\* the magnitude of entry i (0-based) of a list of main()
ValOf(entries, i) == entries[i + 1].val

\* C9 as claimed: the sign of entry i is -1 exactly when the i-th character
\* of line 1 (longitude) or line 2 (latitude) of the sign file is "+", and
\* +1 otherwise, also when the character, the line or the file is missing
\* (26-Jan/tz.py and find_cities.py).
C9_SignFromRawLine ==
    \A r \in Handled :
        prog \in {"tz", "fc"} =>
            /\ UsesLatitude(r) => r.lat_sign = RawSign(offsets, 2, r.idx)
            /\ UsesLongitude(r) => r.lon_sign = RawSign(offsets, 1, r.idx)

\* C9 as amended: the sign of entry i is -1 exactly when the i-th character
\* of the axis's sign line is "+", where the sign lines are the lines of the
\* file that are not blank, each stripped of leading and trailing
\* whitespace (the first of them for longitude, the second for latitude);
\* it is +1 for any other character and when the character, the line or the
\* file is missing; the signed value is the magnitude times that sign.
C9_SignFromStrippedLine ==
    \A r \in Handled :
        prog \in {"tz", "fc"} =>
            /\ UsesLatitude(r) =>
                /\ r.lat_sign = StrippedSign(offsets, 2, r.idx)
                /\ r.lat_val = ValOf(rows, r.idx) * r.lat_sign
            /\ UsesLongitude(r) =>
                /\ r.lon_sign = StrippedSign(offsets, 1, r.idx)
                /\ r.lon_val = ValOf(columns, r.idx) * r.lon_sign

\* C9 witness: the first line of the sign file is " +", and the first
\* longitude entry, of magnitude 16 degrees, got the sign -1.
C9_Witness ==
    /\ prog \in {"tz", "fc"}
    /\ offsets.exists /\ Len(offsets.lines) >= 1
    /\ offsets.lines[1] = Str2(" ", "+")
    /\ \E r \in Handled :
          /\ UsesLongitude(r) /\ r.idx = 0
          /\ r.lon_sign = -1 /\ r.lon_val = -Deg(16)

\* C10: a value reaches a collaborator only as the value decoded and signed
\* for its own axis, with |lat| <= 90 and |lon| <= 180; an entry or pair
\* reported as out of range reaches no collaborator.
C10_OnlyInRangeDownstream ==
    /\ \A c \in Elems(calls) :
        /\ UsesLatitude(c) => (Abs(c.lat_val) <= Deg(90) /\ c.lat = c.lat_val)
        /\ UsesLongitude(c) => (Abs(c.lon_val) <= Deg(180) /\ c.lng = c.lon_val)
    /\ \A r \in Elems(reports) :
        ~\E c \in Elems(calls) : c.axis = r.axis /\ c.idx = r.idx

\* the entry of rows or columns that a call's value was taken from
RowOf(c) == rows[c.idx + 1]
ColumnOf(c) == columns[c.idx + 1]

\* C11: an entry whose digit run failed to decode, or that is a padding
\* placeholder, is excluded: every value handed to a collaborator comes from
\* an entry that the decoder decoded.
C11_UnparseableExcluded ==
    \A c \in Elems(calls) :
        /\ UsesLatitude(c) => RowOf(c).how = "decoded"
        /\ UsesLongitude(c) => ColumnOf(c).how = "decoded"

\* main() got past the extraction of columns and rows
Extracted ==
    /\ pc \notin {"start", "raised"}
    /\ error \notin {"Could not find separator", "data.txt not found"}

\* C12: after extraction from a grid with a blank separator line, rows and
\* columns each hold exactly 12 entries (26-Jan/tz.py and find_cities.py).
C12_TwelveEntries ==
    (prog \in {"tz", "fc"} /\ Extracted) =>
        /\ Len(rows) = NumEntries
        /\ Len(columns) = NumEntries

\* C13: for every grid text, lines with characters other than digits and
\* underscores included, extraction and decoding never raise.
C13_NeverRaises == pc # "raised"

----------------------------------------------------------------------------
(* Properties of the later longitude candidates *)

Value232(d) ==
    Magnitude(int(Slice(d, 0, 2)), int(Slice(d, 2, 5)), int(Slice(d, 5, 7)),
              IF Len(d) > 7 THEN int(SliceFrom(d, 7)) ELSE 0,
              IF Len(d) > 7 THEN Len(d) - 7 ELSE 0)

C15_Holds(c) ==
    (Returned(c) /\ IsLongitude /\ Len(digit_string) >= 7
       /\ ~Valid322(digit_string) /\ ~Valid222(digit_string)
       /\ int(Slice(digit_string, 2, 4)) < 60)
        => /\ c.ok
           /\ c.value = Value223(digit_string)
           /\ c.seconds = int(Slice(digit_string, 4, 7))

\* C15: a longitude run of 7 or more digits whose 3-2-2 and 2-2-2 splits
\* are invalid and whose d[2:4] is below 60 decodes to the 2-2-3 split,
\* d[0:2] + d[2:4]/60 + (d[4:7] + fraction)/3600, whatever the value of the
\* 3-digit seconds field (26-Jan/tz.py and Jan-26/tz.py).
C15_Split223Unbounded ==
    /\ C15_Holds(coord_tz)
    /\ C15_Holds(coord_old)

\* C15 witness: a run was decoded by both copies to its 2-2-3 split with a
\* seconds field of 60 or more.
C15_Witness ==
    /\ IsLongitude /\ Len(digit_string) >= 7
    /\ ~Valid322(digit_string) /\ ~Valid222(digit_string)
    /\ coord_tz.ok /\ coord_tz.branch = "2-2-3" /\ coord_tz.seconds >= 60
    /\ coord_tz.value = Value223(digit_string)
    /\ coord_old.ok /\ coord_old.value = Value223(digit_string)

C16_Holds(c) ==
    (Returned(c) /\ IsLongitude /\ Len(digit_string) >= 7
       /\ ~Valid322(digit_string) /\ ~Valid222(digit_string)
       /\ ~Valid223(digit_string)
       /\ int(Slice(digit_string, 5, 7)) < 60)
        => (c.ok /\ c.value = Value232(digit_string))

\* C16: a longitude run of 7 or more digits on which 3-2-2, 2-2-2 and 2-2-3
\* have failed decodes to the 2-3-2 split, d[0:2] + d[2:5]/60 +
\* (d[5:7] + fraction)/3600, whatever the value of the 3-digit minutes
\* field (26-Jan/tz.py and Jan-26/tz.py).
C16_Split232Unbounded ==
    /\ C16_Holds(coord_tz)
    /\ C16_Holds(coord_old)

C17_Holds(c) ==
    (Returned(c) /\ IsLongitude /\ Len(digit_string) = 5) =>
        /\ c.ok
        /\ (/\ int(Slice(digit_string, 2, 4)) >= 60
            /\ ~(int(Slice(digit_string, 0, 3)) < 180
                   /\ int(Slice(digit_string, 3, 5)) < 60))
             => c.value = Magnitude(int(Slice(digit_string, 0, 2)),
                                    int(Slice(digit_string, 2, 5)), 0, 0, 0)

\* C17: a longitude run of 5 digits on which 2-2-1 and 3-2 both fail
\* decodes to the 2-3 split, d[0:2] + d[2:5]/60, so that a run of 5 digits
\* never fails to decode (26-Jan/tz.py and Jan-26/tz.py).
C17_Length5NeverFails ==
    /\ C17_Holds(coord_tz)
    /\ C17_Holds(coord_old)

C18_Holds(c) ==
    (Returned(c) /\ IsLongitude /\ Len(digit_string) = 6
       /\ ~Valid222(digit_string)) =>
        IF int(Slice(digit_string, 0, 3)) < 180 /\ int(Slice(digit_string, 3, 5)) < 60
        THEN c.ok /\ c.value = Magnitude(int(Slice(digit_string, 0, 3)),
                                         int(Slice(digit_string, 3, 5)),
                                         int(Slice(digit_string, 5, 6)), 0, 0)
        ELSE ~c.ok

\* C18: a longitude run of exactly 6 digits whose 2-2-2 split is invalid
\* decodes to the 3-2-1 split, d[0:3] + d[3:5]/60 + d[5]/3600, when
\* d[0:3] < 180 and d[3:5] < 60, and fails otherwise (26-Jan/tz.py and
\* find_cities.py).
C18_Length6Split321 ==
    /\ C18_Holds(coord_tz)
    /\ C18_Holds(coord_fc)

C19_Holds(c) ==
    (Returned(c) /\ IsLongitude /\ Len(digit_string) = 4) =>
        IF int(Slice(digit_string, 2, 4)) < 60
        THEN c.ok /\ c.value = Magnitude(int(Slice(digit_string, 0, 2)),
                                         int(Slice(digit_string, 2, 4)), 0, 0, 0)
        ELSE IF int(Slice(digit_string, 0, 3)) < 180
        THEN c.ok /\ c.value = Deg(int(Slice(digit_string, 0, 3)))
        ELSE ~c.ok

\* C19: a longitude run of 4 digits decodes to d[0:2] + d[2:4]/60 when
\* d[2:4] < 60; otherwise, when d[0:3] < 180, to d[0:3] whole degrees,
\* whatever the fourth digit; otherwise it fails (26-Jan/tz.py and
\* Jan-26/tz.py).
C19_Length4 ==
    /\ C19_Holds(coord_tz)
    /\ C19_Holds(coord_old)

\* C19 witness: a run of 4 digits with d[2:4] >= 60 and a fourth digit
\* other than 0 was decoded by both copies to d[0:3] whole degrees.
C19_Witness ==
    /\ IsLongitude /\ Len(digit_string) = 4
    /\ int(Slice(digit_string, 2, 4)) >= 60
    /\ int(Slice(digit_string, 3, 4)) > 0
    /\ coord_tz.ok /\ coord_tz.value = Deg(int(Slice(digit_string, 0, 3)))
    /\ coord_old.ok /\ coord_old.value = coord_tz.value

\* C20: a longitude run of 3 digits decodes to its value in whole degrees
\* when that value is below 180 and fails when it is 180 or more; a run of
\* 2 digits decodes to its value in whole degrees, unchecked (26-Jan/tz.py).
C20_Length3And2 ==
    (Returned(coord_tz) /\ IsLongitude) =>
        /\ Len(digit_string) = 3 =>
             IF int(digit_string) < 180
             THEN /\ coord_tz.ok /\ coord_tz.value = Deg(int(digit_string))
                  /\ coord_tz.minutes = 0 /\ coord_tz.seconds = 0
             ELSE ~coord_tz.ok
        /\ Len(digit_string) = 2 =>
             /\ coord_tz.ok /\ coord_tz.value = Deg(int(digit_string))
             /\ coord_tz.minutes = 0 /\ coord_tz.seconds = 0

\* C20 witness: a run of 3 digits worth 180 or more was refused.
C20_Witness ==
    /\ IsLongitude /\ Len(digit_string) = 3
    /\ int(digit_string) >= 180
    /\ Returned(coord_tz) /\ ~coord_tz.ok


\* the number of digits the selected split of c uses up to its seconds field
\* (6 for a latitude and for the 2-2-2 longitude split, else 7)
SplitWidth(c) ==
    IF IsLatitude \/ c.branch = "2-2-2" THEN 6 ELSE 7

\* the selected split of c is one with a seconds field and leaves digits
\* beyond it
HasTrailingDigits(c) ==
    /\ Returned(c) /\ c.ok
    /\ \/ IsLatitude
       \/ IsLongitude /\ c.branch \in {"3-2-2", "2-2-2", "2-2-3", "2-3-2"}
    /\ Len(digit_string) > SplitWidth(c)

\* the magnitude of the selected split, its fields read from the run
SplitValue(c) ==
    IF IsLatitude THEN LatMagnitude(digit_string)
    ELSE IF c.branch = "3-2-2" THEN Value322(digit_string)
    ELSE IF c.branch = "2-2-2" THEN Value222(digit_string)
    ELSE IF c.branch = "2-2-3" THEN Value223(digit_string)
    ELSE Value232(digit_string)

C21_Holds(c) ==
    HasTrailingDigits(c) =>
        LET t == SliceFrom(digit_string, SplitWidth(c))
            k == Len(digit_string) - SplitWidth(c)
        IN  /\ c.fraction = int(t)
            /\ c.fdigits = k
            /\ int(t) < Pow10(k)
            /\ c.value = SplitValue(c)
            /\ c.value = Magnitude(c.degrees, c.minutes, c.seconds, int(t), k)

C22_Holds(c) ==
    (Returned(c) /\ c.ok) =>
        /\ c.value >= 0
        /\ (c.minutes = 0 /\ c.seconds = 0 /\ c.fraction = 0) =>
               /\ c.value = Deg(c.degrees)
               /\ \E w \in (IF IsLatitude THEN {2} ELSE {2, 3}) :
                      c.degrees = int(Slice(digit_string, 0, w))

\* C22: every successful decode, on either axis and in each of the three
\* copies of the decoder, returns a non-negative magnitude, and when the
\* decoded minutes and seconds are both zero the magnitude is exactly the
\* integer degrees field, the leading 2 (latitude) or 2 or 3 (longitude)
\* digits of the run.
C22_NonNegativeWholeDegrees ==
    /\ C22_Holds(coord_tz)
    /\ C22_Holds(coord_old)
    /\ C22_Holds(coord_fc)

\* a 6-digit latitude run with zero minutes and seconds has decoded to its
\* degrees field, here one above 90
C22_Witness ==
    /\ IsLatitude /\ Len(digit_string) = 6
    /\ Returned(coord_tz) /\ coord_tz.ok
    /\ coord_tz.minutes = 0 /\ coord_tz.seconds = 0
    /\ coord_tz.degrees = 96 /\ coord_tz.value = Deg(96)


\* the lines of the grid main() works on: data.txt, or for 26-Jan/tz.py the
\* embedded data when data.txt is missing
GridLines == IF data.exists THEN data.lines ELSE EmbeddedData
HasGrid == data.exists \/ prog = "tz"

\* a blank line: empty or whitespace only
Blank(line) == \A i \in 1..Len(line) : IsSpace(line[i])
HasBlank(lines) == \E i \in 1..Len(lines) : Blank(lines[i])
FirstBlank(lines) ==
    CHOOSE i \in 1..Len(lines) :
        Blank(lines[i]) /\ \A j \in 1..(i - 1) : ~Blank(lines[j])

\* the digit runs of the lines after the first blank line, in order, lines
\* that hold no digit left out
RunsAfter(lines) ==
    SelectSeq([j \in 1..(Len(lines) - FirstBlank(lines)) |->
                  Clean(lines[FirstBlank(lines) + j])],
              LAMBDA run : Len(run) > 0)

\* the characters at position c (0-based) of the lines before the first
\* blank line, underscores removed, top to bottom
RunBefore(lines, c) ==
    LET before == SelectSeq([j \in 1..(FirstBlank(lines) - 1) |-> Clean(lines[j])],
                            LAMBDA line : Len(line) > c)
    IN  [j \in 1..Len(before) |-> before[j][c + 1]]

\* the digit strings of the entries of a list that are not padding
Strs(entries) ==
    LET kept == SelectSeq(entries, LAMBDA e : e.how # "padding")
    IN  [i \in 1..Len(kept) |-> kept[i].str]

\* the first NumEntries elements of a sequence
Prefix12(seq) == SubSeq(seq, 1, Min(Len(seq), NumEntries))

\* C23: the grid is split at its first blank (empty or whitespace-only)
\* line: the longitude runs are read from the lines before it only, and every
\* line after it that holds a digit feeds the latitude rows, further blank
\* lines ignored (in find_cities.py each of the first 12 becomes a row, in
\* 26-Jan/tz.py each that decodes).  Without a blank line main() returns the
\* error "Could not find separator" with no run extracted and nothing passed
\* downstream.
C23_SplitAtFirstBlank ==
    (prog \in {"tz", "fc"} /\ HasGrid /\ pc \notin {"start", "raised"}) =>
        IF ~HasBlank(GridLines)
        THEN /\ pc = "done" /\ error = "Could not find separator"
             /\ rows = <<>> /\ columns = <<>>
             /\ calls = <<>> /\ reports = <<>>
        ELSE /\ error # "Could not find separator"
             /\ prog = "fc" => Strs(rows) = Prefix12(RunsAfter(GridLines))
             /\ prog = "tz" =>
                    Strs(rows) = Prefix12(SelectSeq(RunsAfter(GridLines),
                        LAMBDA run : parse_coordinate_from_digits(run, 90, 2).ok))
             /\ \A i \in 1..Len(Strs(columns)) :
                    \E c \in 0..(NumEntries - 1) :
                        /\ Strs(columns)[i] = RunBefore(GridLines, c)
                        /\ Len(RunBefore(GridLines, c)) > 0

\* find_cities.py has extracted the grid 19 / 60 / " " / 95 / "" / 90: the
\* whitespace-only line is the separator, the rows are 95 and 90
C23_Witness ==
    /\ prog = "fc" /\ data.exists /\ Len(data.lines) = 6
    /\ FirstBlank(data.lines) = 3 /\ data.lines[3] = <<" ">>
    /\ Blank(data.lines[5])
    /\ Extracted
    /\ rows[1].str = Str2("9", "5") /\ rows[2].str = Str2("9", "0")
    /\ rows[3].how = "padding"
    /\ columns[1].str = Str2("1", "6") /\ columns[2].str = Str2("9", "0")


\* the digits at character position c (0-based) of the lines before the
\* first blank line, top to bottom; a line that is shorter or holds a
\* placeholder there gives none
PositionRun(lines, c) ==
    LET giving == SelectSeq(SubSeq(lines, 1, FirstBlank(lines) - 1),
                            LAMBDA line : Len(line) > c /\ line[c + 1] # "_")
    IN  [j \in 1..Len(giving) |-> giving[j][c + 1]]

\* the non-empty runs of the column positions 0..11, in order of position
PositionRuns(lines) ==
    SelectSeq([c \in 1..NumEntries |-> PositionRun(lines, c - 1)],
              LAMBDA run : Len(run) > 0)

\* C24: the longitude run of column position c (0..11) consists of exactly
\* the digits at character position c of the lines of the columns section,
\* top to bottom: a placeholder contributes no digit and moves no other digit
\* of its line to another column, and positions 12 and above contribute to no
\* run (find_cities.py keeps every non-empty run, 26-Jan/tz.py those that
\* decode).
C24_ColumnsByPosition ==
    (prog \in {"tz", "fc"} /\ HasGrid /\ HasBlank(GridLines)
       /\ pc \notin {"start", "raised"}) =>
        /\ prog = "fc" => Strs(columns) = PositionRuns(GridLines)
        /\ prog = "tz" =>
               Strs(columns) = SelectSeq(PositionRuns(GridLines),
                   LAMBDA run : parse_coordinate_from_digits(run, 180, 3).ok)


\* the non-blank lines after the first blank line, in order
NonBlankAfter(lines) ==
    SelectSeq(SubSeq(lines, FirstBlank(lines) + 1, Len(lines)),
              LAMBDA line : ~Blank(line))

\* C25: a decoded coordinate keeps its original position: the entry that
\* main() handles under index i, giving it the sign of the i-th character of
\* its axis's sign line and pairing it with entry i of the other axis, is the
\* run of column position i, resp. of the i-th non-blank row line, also when
\* an earlier run of the axis was empty or failed to decode (26-Jan/tz.py
\* and find_cities.py; padding entries stand for no run).
C25_PositionKept ==
    (prog \in {"tz", "fc"} /\ HasGrid /\ HasBlank(GridLines)) =>
        \A r \in Handled :
            /\ (UsesLatitude(r) /\ RowOf(r).how # "padding") =>
                   /\ r.idx < Len(NonBlankAfter(GridLines))
                   /\ RowOf(r).str = Clean(NonBlankAfter(GridLines)[r.idx + 1])
            /\ (UsesLongitude(r) /\ ColumnOf(r).how # "padding") =>
                   ColumnOf(r).str =
                       col_digits(cleaned_column_lines(GridLines), r.idx)


\* two results of the decoder are the same outcome: the same magnitude, or
\* both a failure
SameOutcome(a, b) == a.ok = b.ok /\ (a.ok => a.value = b.value)

\* C26: the three copies of parse_coordinate_from_digits (26-Jan/tz.py,
\* Jan-26/tz.py, find_cities.py) are equivalent: for every digit run and both
\* axes they return the same magnitude or all fail.
C26_CopiesEquivalent ==
    (Returned(coord_tz) /\ Returned(coord_old) /\ Returned(coord_fc)) =>
        /\ SameOutcome(coord_tz, coord_old)
        /\ SameOutcome(coord_tz, coord_fc)


\* C27: the decoder of find_cities.py is a restriction of the decoder of
\* 26-Jan/tz.py: wherever find_cities.py returns a magnitude, on either axis,
\* 26-Jan/tz.py returns the same magnitude for the same run.
C27_FindCitiesRestrictsTz ==
    (Returned(coord_tz) /\ Returned(coord_fc) /\ coord_fc.ok) =>
        /\ coord_tz.ok
        /\ coord_tz.value = coord_fc.value

\* both copies have decoded a longitude run by 3-2-2 to the same magnitude
\* although its 2-2-2 split is in range too and gives another one
C27_Witness ==
    /\ IsLongitude
    /\ Returned(coord_tz) /\ Returned(coord_fc)
    /\ coord_fc.ok /\ coord_fc.branch = "3-2-2"
    /\ coord_tz.ok /\ coord_tz.value = coord_fc.value
    /\ Valid222(digit_string)
    /\ Value222(digit_string) # coord_fc.value


C29_RecoveredInBound ==
    prog = "fc" =>
        /\ \A i \in 1..Len(rows) :
               rows[i].how = "recovered" => rows[i].val <= Deg(90)
        /\ \A i \in 1..Len(columns) :
               columns[i].how = "recovered" => columns[i].val <= Deg(180)
        /\ \A r \in Elems(reports) :
               /\ UsesLatitude(r) => RowOf(r).how # "recovered"
               /\ UsesLongitude(r) => ColumnOf(r).how # "recovered"


====
